---------------------------- MODULE Spec2Model ----------------------------
(***************************************************************************)
(* Model of etl/join_building_data/load_csv.py: the row loop of main, the  *)
(* Resolver find_building with its reference lookups find_by_reference,    *)
(* parse_json_columns, the sust_dec rule and update_building.  The two     *)
(* functions decorated with @retry are re-invoked after every exception,   *)
(* without a ceiling.  The remote server and the network are the           *)
(* environment: they choose the outcome of each request.                   *)
(***************************************************************************)
EXTENDS Integers, Sequences, FiniteSets, TLC

(***************************************************************************)
(* Bounds of the model.                                                    *)
(***************************************************************************)
MaxRows  == 2    \* rows in the input file
MaxCount == 2    \* request/call counters saturate at this value
MaxCands == 2    \* longest array the reference endpoint answers with

(***************************************************************************)
(* Values.  Every CSV value is a string; None is Python's None, which      *)
(* csv.DictReader stores for a column the line is too short to fill.       *)
(***************************************************************************)
None    == "None"
Unset   == "unset"       \* a local that has not been assigned yet
Raise   == "raise"       \* the evaluation raised an exception
Missing == "missing"     \* an object without the requested field
NotJson == "not-json"    \* a response body that r.json() cannot decode
Absent  == "absent"      \* used only to build rows: the column is not in the header
NA      == "-"           \* a report-line field the line does not carry

Cols == {"building_id", "toid", "uprn", "sust_dec", "extra"}

ColValues(c) ==
    CASE c = "building_id" -> {None, "42"}
      [] c = "toid"        -> {"X123"}
      [] c = "uprn"        -> {"U1"}
      [] c = "sust_dec"    -> {"", "A", "\"\""}
      [] c = "extra"       -> {"[1,2,3]", "{"}

MkRow(v) == [c \in {d \in Cols : v[d] # Absent} |-> v[c]]

\* the rows csv.DictReader can yield: any subset of the columns, each with one of its values
RowSet ==
    { MkRow([building_id |-> b, toid |-> t, uprn |-> u, sust_dec |-> s, extra |-> e]) :
        b \in ColValues("building_id") \cup {Absent},
        t \in ColValues("toid") \cup {Absent},
        u \in ColValues("uprn") \cup {Absent},
        s \in ColValues("sust_dec") \cup {Absent},
        e \in ColValues("extra") \cup {Absent} }

\* the rows of a file whose header is h: DictReader gives every row the header's columns
RowsOf(h) == {row \in RowSet : DOMAIN row = h}

EmptyRow == [c \in {} |-> ""]

\* the optional fourth argument: a comma-separated list of column names
JsonColumnLists ==
    { <<>>, <<"sust_dec">>, <<"extra">>, <<"sust_dec", "extra">> }

(***************************************************************************)
(* json.loads on the strings of the model: a JSON string literal decodes   *)
(* to its content and an array to a structured value; anything else (bare  *)
(* text, the empty string, "{", None) raises.                              *)
(***************************************************************************)
json_loads(s) ==
    CASE s = "\"\""    -> ""
      [] s = "[1,2,3]" -> "list(1,2,3)"
      [] OTHER         -> Raise

(***************************************************************************)
(* parse_json_columns: for col in json_columns: row[col] = json.loads(...) *)
(* in list order, mutating the row in place; a missing column (KeyError),  *)
(* a None value (TypeError) or invalid JSON raises out of the loop.        *)
(***************************************************************************)
\* variant: a failure to decode is swallowed and the column left as it was
RECURSIVE parse_json_columns_Swallow(_, _)
parse_json_columns_Swallow(row, cols) ==
    IF cols = <<>> THEN [raised |-> FALSE, row |-> row]
    ELSE LET col == Head(cols) IN
         IF col \notin DOMAIN row \/ json_loads(row[col]) = Raise
         THEN parse_json_columns_Swallow(row, Tail(cols))
         ELSE parse_json_columns_Swallow([row EXCEPT ![col] = json_loads(row[col])],
                                         Tail(cols))

RECURSIVE parse_json_columns(_, _)
parse_json_columns(row, cols) ==
    IF cols = <<>> THEN [raised |-> FALSE, row |-> row]
    ELSE LET col == Head(cols) IN
         IF col \notin DOMAIN row THEN [raised |-> TRUE, row |-> row]
         ELSE IF json_loads(row[col]) = Raise THEN [raised |-> TRUE, row |-> row]
         ELSE parse_json_columns([row EXCEPT ![col] = json_loads(row[col])], Tail(cols))

\* variant: the empty sust_dec is left in the row
del_sust_dec_Keeps(line_) == line_

\* variant: sust_dec is removed whatever its value
del_sust_dec_Always(line_) ==
    IF "sust_dec" \in DOMAIN line_
    THEN [c \in DOMAIN line_ \ {"sust_dec"} |-> line_[c]]
    ELSE line_

\* if 'sust_dec' in line and line['sust_dec'] == '': del line['sust_dec']
del_sust_dec(line_) ==
    IF "sust_dec" \in DOMAIN line_ /\ line_["sust_dec"] = ""
    THEN [c \in DOMAIN line_ \ {"sust_dec"} |-> line_[c]]
    ELSE line_

\* variant: the row is never skipped
SkipDecision_NeverSkips(bid) == "sust"

\* if building_id is None: continue
SkipDecision(bid) == IF bid = None THEN "loop" ELSE "sust"

\* variant: the identifier columns are taken out of the body
RequestBody_StripIds(line_) ==
    [c \in DOMAIN line_ \ {"building_id", "toid", "uprn"} |-> line_[c]]

\* json=data: the body of the POST is the row dictionary as it stands
RequestBody(line_) == line_

(***************************************************************************)
(* Responses of the reference endpoint, decoded by r.json(): an array of   *)
(* elements or an object with some keys.  An array element is a candidate  *)
(* object with a building_id, an object without one, or the string 'error'.*)
(***************************************************************************)
CandIds == {"7", "8"}

ErrorStr     == [type |-> "str", building_id |-> Missing]
Candidate(i) == [type |-> "obj", building_id |-> i]
NoIdObject   == [type |-> "obj", building_id |-> Missing]

Elements == {ErrorStr, NoIdObject} \cup {Candidate(i) : i \in CandIds}

ListResponse(es) == [kind |-> "list", elems |-> es, keys |-> {}]
DictResponse(ks) == [kind |-> "dict", elems |-> <<>>, keys |-> ks]
NoResponse       == [kind |-> "none", elems |-> <<>>, keys |-> {}]

Responses ==
    { ListResponse(es) : es \in UNION {[1..n -> Elements] : n \in 0..MaxCands} }
    \cup { DictResponse(ks) : ks \in SUBSET {"error", "message"} }

PyLen(b) == IF b.kind = "list" THEN Len(b.elems) ELSE Cardinality(b.keys)

\* 'error' in buildings: an element of a list, a key of a dict
HasError(b) ==
    IF b.kind = "list" THEN \E i \in 1..Len(b.elems) : b.elems[i] = ErrorStr
    ELSE "error" \in b.keys

\* variant: the test for an error indicator is left out
find_by_reference_IgnoresError(b) ==
    IF PyLen(b) > 0 /\ PyLen(b) = 1
    THEN IF b.kind = "dict" THEN Raise
         ELSE IF b.elems[1].building_id = Missing THEN Raise
         ELSE b.elems[1].building_id
    ELSE None

\* variant: a candidate without a building_id counts as no match
find_by_reference_MissingIdIsNone(b) ==
    IF PyLen(b) > 0 /\ ~HasError(b) /\ PyLen(b) = 1
    THEN IF b.kind = "dict" THEN None
         ELSE IF b.elems[1].building_id = Missing THEN None
         ELSE b.elems[1].building_id
    ELSE None

(***************************************************************************)
(* The body of find_by_reference after buildings = r.json(): the           *)
(* identifier, None, or Raise (buildings[0] on a dict, or ['building_id']  *)
(* on an object that has no such field, is a KeyError).                    *)
(***************************************************************************)
find_by_reference(b) ==
    IF PyLen(b) > 0 /\ ~HasError(b) /\ PyLen(b) = 1
    THEN IF b.kind = "dict" THEN Raise
         ELSE IF b.elems[1].building_id = Missing THEN Raise
         ELSE b.elems[1].building_id
    ELSE None

\* variant: the toid lookup is tried before the building_id column
NextStrategy_ToidFirst(data_, after) ==
    IF after = "start" /\ "toid" \in DOMAIN data_ THEN "toid"
    ELSE IF after \in {"start", "toid"}
            /\ "building_id" \in DOMAIN data_ /\ data_["building_id"] # None
    THEN "building_id"
    ELSE IF after \in {"start", "toid"} /\ "uprn" \in DOMAIN data_ THEN "uprn"
    ELSE "no_match"

\* variant: the uprn lookup is tried before the toid lookup
NextStrategy_UprnFirst(data_, after) ==
    IF after = "start" /\ "building_id" \in DOMAIN data_ /\ data_["building_id"] # None
    THEN "building_id"
    ELSE IF after \in {"start"} /\ "uprn" \in DOMAIN data_ THEN "uprn"
    ELSE IF after \in {"start", "uprn"} /\ "toid" \in DOMAIN data_ THEN "toid"
    ELSE "no_match"

\* variant: a lookup that finds nothing ends the resolution
NextStrategy_NoFallThrough(data_, after) ==
    IF after = "start" /\ "building_id" \in DOMAIN data_ /\ data_["building_id"] # None
    THEN "building_id"
    ELSE IF after \in {"start"} /\ "toid" \in DOMAIN data_ THEN "toid"
    ELSE IF after \in {"start"} /\ "uprn" \in DOMAIN data_ THEN "uprn"
    ELSE "no_match"

\* variant: after a uprn lookup that finds nothing the toid lookup is tried again
NextStrategy_RetryToid(data_, after) ==
    IF after = "start" /\ "building_id" \in DOMAIN data_ /\ data_["building_id"] # None
    THEN "building_id"
    ELSE IF after \in {"start", "uprn"} /\ "toid" \in DOMAIN data_ THEN "toid"
    ELSE IF after \in {"start", "toid"} /\ "uprn" \in DOMAIN data_ THEN "uprn"
    ELSE "no_match"

(***************************************************************************)
(* The order of strategies in find_building.  after is the strategy that   *)
(* has just failed ("start" on entry); the result is the next one to run.  *)
(***************************************************************************)
NextStrategy(data_, after) ==
    IF after = "start" /\ "building_id" \in DOMAIN data_ /\ data_["building_id"] # None
    THEN "building_id"
    ELSE IF after \in {"start"} /\ "toid" \in DOMAIN data_ THEN "toid"
    ELSE IF after \in {"start", "toid"} /\ "uprn" \in DOMAIN data_ THEN "uprn"
    ELSE "no_match"

\* variant: the match line leaves out the value that was looked up
MatchLine_NoValue(strategy, value, id) ==
    [tag |-> "match_by_" \o strategy, value |-> NA, id |-> id, code |-> 0, body |-> NA]

(***************************************************************************)
(* Report lines (print).                                                   *)
(***************************************************************************)
MatchLine(strategy, value, id) ==
    [tag |-> "match_by_" \o strategy, value |-> value, id |-> id, code |-> 0, body |-> NA]
NoMatchLine ==
    [tag |-> "no_match", value |-> NA, id |-> NA, code |-> 0, body |-> NA]
\* variant: the test of the status code is inverted
OutcomeLine_Inverted(id, code, body) ==
    [tag |-> IF code = 200 THEN "ERROR" ELSE "DEBUG",
     value |-> NA, id |-> id, code |-> code, body |-> body]

\* variant: the success line leaves out the response body
OutcomeLine_NoBodyOnSuccess(id, code, body) ==
    [tag |-> IF code # 200 THEN "ERROR" ELSE "DEBUG",
     value |-> NA, id |-> id, code |-> code, body |-> IF code # 200 THEN body ELSE NA]

OutcomeLine(id, code, body) ==
    [tag |-> IF code # 200 THEN "ERROR" ELSE "DEBUG",
     value |-> NA, id |-> id, code |-> code, body |-> body]

StatusCodes == {200, 422}
Bodies      == {"{}", "{\"error\":\"invalid\"}"}

Inc(n) == IF n < MaxCount THEN n + 1 ELSE n

NoCalls == [toid |-> 0, uprn |-> 0, update |-> 0]
NoSent  == [get |-> 0, post |-> 0]
NoRefs  == [toid |-> Unset, uprn |-> Unset]
NoR     == [status_code |-> 0, json |-> Unset]

VARIABLES
    header,        \* the reader's fieldnames: the columns named by the first line
    json_columns,  \* main's argument: the columns to decode as JSON
    rowIdx,        \* number of lines the reader has yielded
    data,          \* the row as read from the file (what find_building is given)
    line,          \* main's line: the row, mutated by parse_json_columns and del
    building_id,   \* main's building_id: the Resolver's result
    pc,            \* position of the (single) thread of control
    ref_key,       \* find_by_reference's ref_key of the current lookup
    ref,           \* what find_by_reference returned in this row, per key
    buildings,     \* find_by_reference's buildings of the current attempt
    r,             \* update_building's r of the current attempt
    calls,         \* invocations in this row: find_by_reference per key, update_building
    sent,          \* requests sent in this row: GET, POST
    exc,           \* the exception the latest attempt raised, until the next attempt
    inflight,      \* requests sent and not yet answered or failed
    out,           \* the report lines printed for this row
    received       \* POST requests the server has received: <<row, identifier>>

vars == <<header, json_columns, rowIdx, data, line, building_id, pc, ref_key, ref, buildings,
          r, calls, sent, exc, inflight, out, received>>

Init ==
    /\ header \in SUBSET Cols
    /\ json_columns \in JsonColumnLists
    /\ rowIdx = 0
    /\ data = EmptyRow
    /\ line = EmptyRow
    /\ building_id = None
    /\ pc = "loop"
    /\ ref_key = NA
    /\ ref = NoRefs
    /\ buildings = NoResponse
    /\ r = NoR
    /\ calls = NoCalls
    /\ sent = NoSent
    /\ exc = Unset
    /\ inflight = {}
    /\ out = <<>>
    /\ received = {}

\* for line in reader: the next line of the file
ReadLine ==
    /\ pc = "loop"
    /\ rowIdx < MaxRows
    /\ \E row \in RowsOf(header) :
          /\ data' = row
          /\ line' = row
    /\ rowIdx' = rowIdx + 1
    /\ building_id' = None
    /\ ref_key' = NA
    /\ ref' = NoRefs
    /\ buildings' = NoResponse
    /\ r' = NoR
    /\ calls' = NoCalls
    /\ sent' = NoSent
    /\ exc' = Unset
    /\ out' = <<>>
    /\ pc' = "find"
    /\ UNCHANGED <<header, json_columns, inflight, received>>

\* the reader is exhausted: main returns
EndOfFile ==
    /\ pc = "loop"
    /\ pc' = "done"
    /\ UNCHANGED <<header, json_columns, rowIdx, data, line, building_id, ref_key, ref, buildings,
                   r, calls, sent, exc, inflight, out, received>>

\* find_building runs the strategy s: return the building_id column, start a lookup, or give up
RunStrategy(s) ==
    CASE s = "building_id" ->
            /\ building_id' = data["building_id"]
            /\ out' = Append(out, MatchLine("building_id", NA, data["building_id"]))
            /\ pc' = "parse"
            /\ UNCHANGED <<ref_key, calls>>
      [] s \in {"toid", "uprn"} ->
            /\ ref_key' = s
            /\ calls' = [calls EXCEPT ![s] = Inc(@)]
            /\ pc' = "get"
            /\ UNCHANGED <<building_id, out>>
      [] OTHER ->
            /\ building_id' = None
            /\ out' = Append(out, NoMatchLine)
            /\ pc' = "parse"
            /\ UNCHANGED <<ref_key, calls>>

\* find_building from its entry to its first lookup or its return
FindBuilding ==
    /\ pc = "find"
    /\ RunStrategy(NextStrategy(data, "start"))
    /\ UNCHANGED <<header, json_columns, rowIdx, data, line, ref, buildings, r, sent, exc,
                   inflight, received>>

\* one attempt of find_by_reference: requests.get
SendGet ==
    /\ pc = "get"
    /\ inflight' = inflight \cup
          {[method |-> "GET", row |-> rowIdx, key |-> ref_key, id |-> data[ref_key],
            body |-> EmptyRow]}
    /\ sent' = [sent EXCEPT !.get = Inc(@)]
    /\ buildings' = NoResponse
    /\ exc' = Unset
    /\ pc' = "get_wait"
    /\ UNCHANGED <<header, json_columns, rowIdx, data, line, building_id, ref_key, ref, r, calls,
                   out, received>>

\* variant: the retry gives up once the counter is full and the exception leaves main
GetRaises_Ceiling ==
    /\ pc = "get_wait"
    /\ \E kind \in {"connection", "bad_json"} :
          /\ inflight' = {}
          /\ exc' = kind
          /\ pc' = IF sent.get >= MaxCount THEN "crashed" ELSE "get"
    /\ UNCHANGED <<header, json_columns, rowIdx, data, line, building_id, ref_key, ref, buildings,
                   r, calls, sent, out, received>>

\* requests.get raises (connection, timeout) or r.json() cannot decode the body: retry
GetRaises ==
    /\ pc = "get_wait"
    /\ \E kind \in {"connection", "bad_json"} :
          /\ inflight' = {}
          /\ exc' = kind
          /\ pc' = "get"
    /\ UNCHANGED <<header, json_columns, rowIdx, data, line, building_id, ref_key, ref, buildings,
                   r, calls, sent, out, received>>

\* the server answers the lookup with decodable JSON: find_by_reference returns, or raises and is retried
GetResponds ==
    /\ pc = "get_wait"
    /\ \E b \in Responses :
          /\ buildings' = b
          /\ inflight' = {}
          /\ IF find_by_reference(b) = Raise
             THEN /\ exc' = "KeyError"
                  /\ pc' = "get"
                  /\ ref' = ref
             ELSE /\ ref' = [ref EXCEPT ![ref_key] = find_by_reference(b)]
                  /\ pc' = "got"
                  /\ exc' = exc
    /\ UNCHANGED <<header, json_columns, rowIdx, data, line, building_id, ref_key, r, calls, sent,
                   out, received>>

\* find_building after a lookup has returned
FindBuildingResume ==
    /\ pc = "got"
    /\ IF ref[ref_key] # None
       THEN /\ building_id' = ref[ref_key]
            /\ out' = Append(out, MatchLine(ref_key, data[ref_key], ref[ref_key]))
            /\ pc' = "parse"
            /\ UNCHANGED <<ref_key, calls>>
       ELSE RunStrategy(NextStrategy(data, ref_key))
    /\ buildings' = NoResponse
    /\ UNCHANGED <<header, json_columns, rowIdx, data, line, ref, r, sent, exc, inflight, received>>

\* variant: the JSON columns of a row without identifier are not decoded
ParseJsonColumns_OnlyResolved ==
    /\ pc = "parse"
    /\ LET p == IF building_id = None THEN [raised |-> FALSE, row |-> line]
                ELSE parse_json_columns(line, json_columns) IN
          /\ line' = p.row
          /\ pc' = IF p.raised THEN "crashed" ELSE "check"
    /\ UNCHANGED <<header, json_columns, rowIdx, data, building_id, ref_key, ref, buildings, r,
                   calls, sent, exc, inflight, out, received>>

\* line = parse_json_columns(line, json_columns); an exception leaves main
ParseJsonColumns ==
    /\ pc = "parse"
    /\ LET p == parse_json_columns(line, json_columns) IN
          /\ line' = p.row
          /\ pc' = IF p.raised THEN "crashed" ELSE "check"
    /\ UNCHANGED <<header, json_columns, rowIdx, data, building_id, ref_key, ref, buildings, r,
                   calls, sent, exc, inflight, out, received>>

\* if building_id is None: continue
SkipCheck ==
    /\ pc = "check"
    /\ pc' = SkipDecision(building_id)
    /\ UNCHANGED <<header, json_columns, rowIdx, data, line, building_id, ref_key, ref, buildings,
                   r, calls, sent, exc, inflight, out, received>>

\* the sust_dec rule, then the call of update_building
SustDecRule ==
    /\ pc = "sust"
    /\ line' = del_sust_dec(line)
    /\ calls' = [calls EXCEPT !.update = Inc(@)]
    /\ pc' = "post"
    /\ UNCHANGED <<header, json_columns, rowIdx, data, building_id, ref_key, ref, buildings, r,
                   sent, exc, inflight, out, received>>

\* variant: the request is sent without waiting for its answer
SendPost_FireAndForget ==
    /\ pc = "post"
    /\ inflight' = inflight \cup
          {[method |-> "POST", row |-> rowIdx, key |-> NA, id |-> building_id,
            body |-> RequestBody(line)]}
    /\ sent' = [sent EXCEPT !.post = Inc(@)]
    /\ r' = NoR
    /\ exc' = Unset
    /\ pc' = "loop"
    /\ UNCHANGED <<header, json_columns, rowIdx, data, line, building_id, ref_key, ref, buildings,
                   calls, out, received>>

\* one attempt of update_building: requests.post
SendPost ==
    /\ pc = "post"
    /\ inflight' = inflight \cup
          {[method |-> "POST", row |-> rowIdx, key |-> NA, id |-> building_id,
            body |-> RequestBody(line)]}
    /\ sent' = [sent EXCEPT !.post = Inc(@)]
    /\ r' = NoR
    /\ exc' = Unset
    /\ pc' = "post_wait"
    /\ UNCHANGED <<header, json_columns, rowIdx, data, line, building_id, ref_key, ref, buildings,
                   calls, out, received>>

\* requests.post raises: the request never arrived, or it arrived and the answer was lost
PostRaises ==
    /\ pc = "post_wait"
    /\ \E kind \in {"connection", "timeout"} :
          /\ received' = IF kind = "timeout"
                         THEN received \cup {<<rowIdx, building_id>>} ELSE received
          /\ exc' = kind
    /\ inflight' = {}
    /\ pc' = "post"
    /\ UNCHANGED <<header, json_columns, rowIdx, data, line, building_id, ref_key, ref, buildings,
                   r, calls, sent, out>>

\* variant: an update the server rejects is submitted again
PostResponds_RetryOnRejection ==
    /\ pc = "post_wait"
    /\ \E code \in StatusCodes, body \in Bodies \cup {NotJson} :
          /\ r' = [status_code |-> code, json |-> body]
          /\ IF body = NotJson
             THEN /\ exc' = "bad_json"
                  /\ pc' = "post"
                  /\ out' = out
             ELSE /\ out' = Append(out, OutcomeLine(building_id, code, body))
                  /\ pc' = IF code # 200 /\ sent.post < MaxCount THEN "post" ELSE "loop"
                  /\ exc' = exc
    /\ received' = received \cup {<<rowIdx, building_id>>}
    /\ inflight' = {}
    /\ UNCHANGED <<header, json_columns, rowIdx, data, line, building_id, ref_key, ref, buildings,
                   calls, sent>>

\* the server answers the update: r.json() raises and the attempt is retried, or
\* update_building returns and main reports the outcome
PostResponds ==
    /\ pc = "post_wait"
    /\ \E code \in StatusCodes, body \in Bodies \cup {NotJson} :
          /\ r' = [status_code |-> code, json |-> body]
          /\ IF body = NotJson
             THEN /\ exc' = "bad_json"
                  /\ pc' = "post"
                  /\ out' = out
             ELSE /\ out' = Append(out, OutcomeLine(building_id, code, body))
                  /\ pc' = "loop"
                  /\ exc' = exc
    /\ received' = received \cup {<<rowIdx, building_id>>}
    /\ inflight' = {}
    /\ UNCHANGED <<header, json_columns, rowIdx, data, line, building_id, ref_key, ref, buildings,
                   calls, sent>>

Next ==
    \/ ReadLine
    \/ EndOfFile
    \/ FindBuilding
    \/ SendGet
    \/ GetRaises
    \/ GetResponds
    \/ FindBuildingResume
    \/ ParseJsonColumns
    \/ SkipCheck
    \/ SustDecRule
    \/ SendPost
    \/ PostRaises
    \/ PostResponds

Spec == Init /\ [][Next]_vars

(***************************************************************************)
(* The run under the assumption that the remote is eventually reachable:   *)
(* the program takes its next step whenever it has one, and a request that *)
(* is attempted again and again is eventually answered in a way that lets  *)
(* the decorated function return.                                          *)
(***************************************************************************)
ProgramStep ==
    \/ ReadLine \/ EndOfFile \/ FindBuilding \/ SendGet \/ FindBuildingResume
    \/ ParseJsonColumns \/ SkipCheck \/ SustDecRule \/ SendPost

GetReturns  == GetResponds /\ pc' = "got"
PostReturns == PostResponds /\ pc' = "loop"

FairSpec ==
    /\ Spec
    /\ WF_vars(ProgramStep)
    /\ SF_vars(GetReturns)
    /\ SF_vars(PostReturns)

TypeOK ==
    /\ rowIdx \in 0..MaxRows
    /\ pc \in {"loop", "find", "get", "get_wait", "got", "parse", "check", "sust", "post",
               "post_wait", "done", "crashed"}
    /\ Cardinality(inflight) <= 1

(***************************************************************************)
(* Vocabulary of the properties.                                           *)
(***************************************************************************)
IdCols == {"building_id", "toid", "uprn"}

\* find_building has returned for the current row
Resolved == rowIdx > 0 /\ pc \notin {"find", "get", "get_wait", "got"}

HasBuildingId == "building_id" \in DOMAIN data /\ data["building_id"] # None

PostRequests == {q \in inflight : q.method = "POST"}
GetRequests  == {q \in inflight : q.method = "GET"}

\* the response is an array holding exactly one candidate object with a building_id
OneCandidate(b) ==
    /\ b.kind = "list"
    /\ Len(b.elems) = 1
    /\ b.elems[1].type = "obj"
    /\ b.elems[1].building_id # Missing

LastLine == out[Len(out)]

Reported(tag) == \E i \in 1..Len(out) : out[i].tag = tag

(***************************************************************************)
(* C1 (as stated): for every row at most one POST is sent, and one is sent *)
(* only if the Resolver returned an identifier.  The retry of              *)
(* update_building sends the POST again after an attempt that raised.      *)
(***************************************************************************)
C1_AtMostOnePost ==
    /\ sent.post <= 1
    /\ (sent.post > 0 => building_id # None)

(***************************************************************************)
(* C1 (amended): for every row update_building is called at most once,    *)
(* and only after the Resolver returned an identifier; a POST is sent only *)
(* within that call, and sent again only after an attempt that raised.     *)
(***************************************************************************)
C1_OneUpdatePerRow ==
    /\ calls.update <= 1
    /\ (sent.post > 0 => Resolved /\ building_id # None /\ calls.update = 1)
    /\ (calls.update > 0 => Resolved /\ building_id # None)
    /\ (pc = "post" /\ sent.post > 0 => exc # Unset)
    /\ (pc \in {"loop", "done"} => ~(Reported("ERROR") /\ Reported("DEBUG")))

C1_Witness ==
    /\ pc = "loop"
    /\ sent.post >= 2
    /\ calls.update = 1
    /\ Reported("DEBUG")

(***************************************************************************)
(* C2: for every row with a non-null building_id column, find_building     *)
(* returns exactly that value and no reference lookup (GET) is issued,     *)
(* whether or not the row also has toid or uprn columns.                   *)
(***************************************************************************)
C2_BuildingIdDirect ==
    (rowIdx > 0 /\ HasBuildingId) =>
        /\ sent.get = 0
        /\ calls.toid = 0 /\ calls.uprn = 0
        /\ GetRequests = {}
        /\ pc \notin {"get", "get_wait", "got"}
        /\ (pc # "find" => building_id = data["building_id"])

C2_Witness ==
    /\ HasBuildingId
    /\ {"toid", "uprn"} \subseteq DOMAIN data
    /\ pc = "loop"
    /\ building_id = data["building_id"]
    /\ Reported("match_by_building_id")

(***************************************************************************)
(* C3: for every row without a (non-null) building_id but with a toid      *)
(* column, find_building invokes exactly one toid lookup, and if that      *)
(* lookup yields exactly one candidate, find_building returns that         *)
(* candidate's building_id.                                                *)
(***************************************************************************)
C3_ToidLookup ==
    (rowIdx > 0 /\ ~HasBuildingId /\ "toid" \in DOMAIN data) =>
        /\ calls.toid = (IF pc = "find" THEN 0 ELSE 1)
        /\ (pc = "got" /\ ref_key = "toid" /\ OneCandidate(buildings)
              => ref.toid = buildings.elems[1].building_id)
        /\ (Resolved => ref.toid # Unset)
        /\ (Resolved /\ ref.toid # None => building_id = ref.toid)

C3_Witness ==
    /\ ~HasBuildingId
    /\ {"toid", "uprn"} \subseteq DOMAIN data
    /\ Resolved
    /\ ref.toid \in CandIds
    /\ building_id = ref.toid
    /\ calls.toid = 1

(***************************************************************************)
(* C4: find_by_reference returns an identifier only when the response      *)
(* holds exactly one candidate and no error indicator; a response with     *)
(* zero candidates, two or more candidates, or an error indicator (a key   *)
(* of an object, an element of an array) makes it return None.             *)
(***************************************************************************)
C4_LookupResult ==
    buildings # NoResponse =>
        /\ (PyLen(buildings) = 0 \/ PyLen(buildings) >= 2 \/ HasError(buildings))
              => (pc = "got" /\ ref[ref_key] = None)
        /\ (pc = "got" /\ ref[ref_key] # None)
              => /\ OneCandidate(buildings)
                 /\ ~HasError(buildings)
                 /\ ref[ref_key] = buildings.elems[1].building_id

C4_Witness ==
    /\ pc = "got"
    /\ buildings.kind = "list"
    /\ PyLen(buildings) >= 2
    /\ ~HasError(buildings)
    /\ ref[ref_key] = None

(***************************************************************************)
(* C5: whenever a lookup resolves to None the Resolver falls through:      *)
(* after a None toid lookup it runs the uprn lookup if the row has a uprn  *)
(* column, and otherwise, or if the uprn lookup is None too, it returns    *)
(* None.                                                                   *)
(***************************************************************************)
C5_FallThrough ==
    /\ (rowIdx > 0 /\ ref.toid = None /\ ~(pc = "got" /\ ref_key = "toid")) =>
          IF "uprn" \in DOMAIN data
          THEN /\ calls.uprn = 1
               /\ ref_key = "uprn"
               /\ (Resolved => ref.uprn # Unset /\ building_id = ref.uprn)
          ELSE /\ calls.uprn = 0
               /\ Resolved
               /\ building_id = None
    /\ (rowIdx > 0 /\ ref.uprn = None /\ pc # "got") =>
          (Resolved /\ building_id = None)

C5_Witness ==
    /\ ref.toid = None
    /\ ref.uprn \in CandIds
    /\ Resolved
    /\ building_id = ref.uprn

C7_UnresolvedRowSkipped ==
    (Resolved /\ building_id = None) =>
        /\ sent.post = 0
        /\ Reported("no_match")
        /\ pc # "crashed"

C9_SustDecRule ==
    \A q \in PostRequests :
        IF "sust_dec" \notin DOMAIN data THEN "sust_dec" \notin DOMAIN q.body
        ELSE IF data["sust_dec"] = "" THEN "sust_dec" \notin DOMAIN q.body
        ELSE "sust_dec" \in DOMAIN q.body /\ q.body["sust_dec"] = data["sust_dec"]

\* the value of the row's sust_dec when the rule is applied: decoded if designated as JSON
SustDecAtRule ==
    IF \E i \in 1..Len(json_columns) : json_columns[i] = "sust_dec"
    THEN json_loads(data["sust_dec"])
    ELSE data["sust_dec"]

(***************************************************************************)
(* C9 (amended): the sust_dec rule applies to the value after JSON-column  *)
(* decoding: if that value is the empty string the field is absent from    *)
(* the payload, if sust_dec is absent from the row it stays absent, and    *)
(* otherwise it is submitted with that value; for a sust_dec that is not a *)
(* designated JSON column this is the row's own value.                     *)
(***************************************************************************)
C9_SustDecRuleAfterDecoding ==
    \A q \in PostRequests :
        IF "sust_dec" \notin DOMAIN data THEN "sust_dec" \notin DOMAIN q.body
        ELSE IF SustDecAtRule = "" THEN "sust_dec" \notin DOMAIN q.body
        ELSE "sust_dec" \in DOMAIN q.body /\ q.body["sust_dec"] = SustDecAtRule

C9_Witness ==
    \E q \in PostRequests :
        /\ "sust_dec" \in DOMAIN data
        /\ data["sust_dec"] = ""
        /\ "sust_dec" \notin DOMAIN q.body
        /\ "extra" \in DOMAIN q.body

\* a designated JSON column of the row holds a value that is not valid JSON
Malformed ==
    \E i \in 1..Len(json_columns) :
        /\ json_columns[i] \in DOMAIN line
        /\ line[json_columns[i]] # None
        /\ json_loads(line[json_columns[i]]) = Raise

(***************************************************************************)
(* C10: a designated JSON column whose value is not valid JSON is fatal:   *)
(* the run halts at that row and takes no further step, no update request  *)
(* is sent for the row, and what the server received for earlier rows is   *)
(* left as it is.                                                          *)
(***************************************************************************)
C10_MalformedJsonFatal ==
    /\ [](pc = "crashed" =>
            /\ sent.post = 0
            /\ inflight = {}
            /\ \A e \in received : e[1] < rowIdx)
    /\ [][ /\ pc # "crashed"
           /\ (pc = "parse" /\ Malformed) =>
                 /\ pc' = "crashed"
                 /\ received' = received
                 /\ rowIdx' = rowIdx
                 /\ sent' = sent ]_vars

C10_Witness ==
    /\ pc = "crashed"
    /\ rowIdx = 2
    /\ received # {}
    /\ building_id # None
    /\ "extra" \in DOMAIN line /\ line["extra"] = "{"

(***************************************************************************)
(* C11: rows are processed strictly one after the other in file order:     *)
(* every request in flight belongs to the current row, at most one request *)
(* is in flight at any time, and the next row is read only when no request *)
(* is in flight and the current row's lines have all been reported.        *)
(***************************************************************************)
C11_Sequential ==
    /\ [](/\ Cardinality(inflight) <= 1
          /\ \A q \in inflight : q.row = rowIdx
          /\ (inflight # {} => pc \in {"get_wait", "post_wait"}))
    /\ [][ /\ (rowIdx' # rowIdx =>
                 /\ rowIdx' = rowIdx + 1
                 /\ pc = "loop"
                 /\ inflight = {} /\ inflight' = {}
                 /\ out' = <<>>)
           /\ (out' # out /\ rowIdx' = rowIdx => inflight' = {} /\ Len(out') = Len(out) + 1)
           /\ (inflight' # inflight /\ inflight' # {} => inflight = {} /\ out' = out) ]_vars

C11_Witness ==
    /\ rowIdx = 2
    /\ \E q \in inflight : q.row = 2 /\ q.method = "POST"
    /\ \E e \in received : e[1] = 1

\* the strategy whose result find_building returned
Winner ==
    IF HasBuildingId THEN "building_id"
    ELSE IF ref.toid \notin {None, Unset} THEN "toid"
    ELSE IF ref.uprn \notin {None, Unset} THEN "uprn"
    ELSE "no_match"

(***************************************************************************)
(* C13 (as stated): every resolution attempt of a row, successful or       *)
(* failed, is reported: for each lookup that returned there is a line that *)
(* carries the value looked up (a no_match line prints the whole row).     *)
(***************************************************************************)
C13_EveryAttemptReported ==
    Resolved =>
        \A k \in {"toid", "uprn"} :
            ref[k] # Unset =>
                \E i \in 1..Len(out) : out[i].tag = "no_match" \/ out[i].value = data[k]

(***************************************************************************)
(* C13 (amended): the resolution of a row is reported with exactly one     *)
(* line, printed when find_building returns: the strategy that succeeded   *)
(* with the value looked up and the identifier, or no_match when none      *)
(* succeeded; a lookup that returned None gets no line of its own.         *)
(***************************************************************************)
C13_ResolutionReported ==
    /\ (rowIdx > 0 /\ ~Resolved => out = <<>>)
    /\ (Resolved =>
          /\ Len(out) >= 1
          /\ out[1].code = 0 /\ out[1].body = NA
          /\ out[1].tag = (IF Winner = "no_match" THEN "no_match" ELSE "match_by_" \o Winner)
          /\ out[1].value = (IF Winner \in {"toid", "uprn"} THEN data[Winner] ELSE NA)
          /\ out[1].id = (IF Winner = "no_match" THEN NA ELSE building_id)
          /\ (Winner = "no_match") = (building_id = None)
          /\ \A i \in 2..Len(out) : out[i].tag \in {"ERROR", "DEBUG"})

C13_Witness ==
    /\ Resolved
    /\ ref.toid = None
    /\ ref.uprn \in CandIds
    /\ Len(out) = 1
    /\ out[1].tag = "match_by_uprn" /\ out[1].value = "U1" /\ out[1].id = ref.uprn

\* update_building has returned for the current row
UpdateReturned == rowIdx > 0 /\ pc \in {"loop", "done"} /\ calls.update > 0

(***************************************************************************)
(* C14: for every row whose update call returns, exactly one outcome line  *)
(* is reported: ERROR if and only if the status code differs from 200,     *)
(* otherwise DEBUG, and in both cases with the resolved identifier, the    *)
(* status code and the response body; no outcome line is reported before.  *)
(***************************************************************************)
C14_OneOutcomeLine ==
    /\ (UpdateReturned =>
          /\ Len(out) = 2
          /\ out[1].tag \notin {"ERROR", "DEBUG"}
          /\ out[2].tag = (IF r.status_code # 200 THEN "ERROR" ELSE "DEBUG")
          /\ out[2].id = building_id
          /\ out[2].code = r.status_code
          /\ out[2].body = r.json
          /\ r.status_code \in StatusCodes
          /\ r.json \in Bodies)
    /\ (~UpdateReturned => ~Reported("ERROR") /\ ~Reported("DEBUG"))

C14_Witness ==
    /\ UpdateReturned
    /\ r.status_code = 200
    /\ out[2].tag = "DEBUG"
    /\ out[2].body = "{}"
    /\ building_id \in CandIds

(***************************************************************************)
(* C15: the strategies run in the order building_id, toid, uprn and the    *)
(* first success wins: a lookup is made only without a non-null            *)
(* building_id, the uprn lookup only if the toid column is missing or its  *)
(* lookup returned None, no lookup is made after a strategy has succeeded, *)
(* and the toid lookup is not made again after the uprn lookup.            *)
(***************************************************************************)
C15_StrictOrder ==
    /\ [](rowIdx > 0 =>
            /\ calls.toid <= 1 /\ calls.uprn <= 1
            /\ (calls.toid > 0 => ~HasBuildingId /\ "toid" \in DOMAIN data)
            /\ (calls.uprn > 0 =>
                  /\ ~HasBuildingId
                  /\ "uprn" \in DOMAIN data
                  /\ ("toid" \notin DOMAIN data \/ ref.toid = None)
                  /\ ref_key = "uprn")
            /\ (\A q \in GetRequests : calls[q.key] = 1 /\ q.key = ref_key)
            /\ (ref.toid \notin {None, Unset} => calls.uprn = 0)
            /\ (Resolved => GetRequests = {})
            /\ (building_id # None => Resolved))
    /\ [][ /\ (calls'.toid > calls.toid => calls.uprn = 0 /\ pc = "find")
           /\ (calls'.uprn > calls.uprn => pc \in {"find", "got"})
           /\ (Resolved /\ rowIdx' = rowIdx =>
                 calls'.toid = calls.toid /\ calls'.uprn = calls.uprn /\ sent'.get = sent.get)
         ]_vars

C15_Witness ==
    /\ "building_id" \in DOMAIN data /\ data["building_id"] = None
    /\ "toid" \in DOMAIN data
    /\ ref.toid = None
    /\ \E q \in GetRequests : q.key = "uprn" /\ q.id = "U1"

(***************************************************************************)
(* C16: the retry of find_by_reference and update_building does not        *)
(* distinguish kinds of failure: whatever an attempt raises (a connection  *)
(* failure, a body that cannot be decoded, a single candidate without a    *)
(* building_id), the same request is attempted again; the failure is never *)
(* turned into None, a report line, or a halt of the run.                  *)
(***************************************************************************)
C16_EveryFailureRetried ==
    /\ [](/\ (exc # Unset =>
                /\ pc \in {"get", "post"}
                /\ inflight = {}
                /\ (pc = "get" => ref[ref_key] = Unset /\ out = <<>> /\ building_id = None)
                /\ (pc = "post" => Len(out) = 1 /\ ~Reported("ERROR") /\ ~Reported("DEBUG")))
          /\ (buildings = ListResponse(<<NoIdObject>>) => pc = "get" /\ exc = "KeyError")
          /\ (r.json = NotJson => pc = "post" /\ exc = "bad_json"))
    /\ [][ exc # Unset =>
             /\ rowIdx' = rowIdx
             /\ out' = out
             /\ IF pc = "get"
                THEN inflight' = {[method |-> "GET", row |-> rowIdx, key |-> ref_key,
                                   id |-> data[ref_key], body |-> EmptyRow]}
                ELSE inflight' = {[method |-> "POST", row |-> rowIdx, key |-> NA,
                                   id |-> building_id, body |-> line]} ]_vars

C16_Witness ==
    /\ pc = "get"
    /\ exc = "KeyError"
    /\ buildings = ListResponse(<<NoIdObject>>)
    /\ sent.get >= 2
    /\ ref_key = "uprn"

(***************************************************************************)
(* C17: once update_building has returned for a row, no further update     *)
(* request is sent for that row; an update request is sent again only      *)
(* after the previous attempt for the row raised, and every request of the *)
(* row carries the same identifier and the same payload.                   *)
(***************************************************************************)
C17_ResendOnlyAfterRaise ==
    /\ [](/\ (\A q \in PostRequests :
                q.row = rowIdx /\ q.id = building_id /\ q.body = line)
          /\ (pc = "post" /\ sent.post > 0 => exc # Unset)
          /\ (Reported("ERROR") \/ Reported("DEBUG") =>
                pc \in {"loop", "done"} /\ inflight = {}))
    /\ [][ /\ (pc \in {"post", "post_wait"} =>
                 line' = line /\ building_id' = building_id /\ rowIdx' = rowIdx)
           /\ (PostRequests' # {} /\ PostRequests = {} =>
                 /\ pc = "post"
                 /\ (sent.post = 0 \/ exc # Unset)
                 /\ ~Reported("ERROR") /\ ~Reported("DEBUG")) ]_vars

C17_Witness ==
    /\ pc = "post_wait"
    /\ sent.post >= 2
    /\ <<rowIdx, building_id>> \in received
    /\ \E q \in PostRequests : q.id \in CandIds /\ q.body = line

\* the row as read, with its designated JSON columns decoded
Decoded == parse_json_columns(data, json_columns)

\* the moves of the control position within and between rows
StepOrder ==
    { <<"loop", "find">>, <<"loop", "done">>,
      <<"find", "get">>, <<"find", "parse">>,
      <<"get", "get_wait">>, <<"get_wait", "get">>, <<"get_wait", "got">>,
      <<"got", "get">>, <<"got", "parse">>,
      <<"parse", "check">>, <<"parse", "crashed">>,
      <<"check", "loop">>, <<"check", "sust">>,
      <<"sust", "post">>, <<"post", "post_wait">>,
      <<"post_wait", "post">>, <<"post_wait", "loop">> }

(***************************************************************************)
(* C18: within a row the steps happen in the order resolve, report the     *)
(* resolution, decode the JSON columns, decide to skip or continue, apply  *)
(* the sust_dec rule, submit, report the outcome; the JSON columns are     *)
(* decoded for every row, whatever the Resolver returned, and never before *)
(* the resolution line of the row has been reported.                       *)
(***************************************************************************)
C18_StepOrder ==
    /\ [](rowIdx > 0 =>
            /\ (pc \in {"find", "get", "get_wait", "got"} =>
                  out = <<>> /\ line = data /\ calls.update = 0 /\ sent.post = 0)
            /\ (pc = "parse" =>
                  Len(out) = 1 /\ line = data /\ calls.update = 0 /\ sent.post = 0)
            /\ (pc \in {"check", "sust"} =>
                  /\ Len(out) = 1
                  /\ ~Decoded.raised /\ line = Decoded.row
                  /\ calls.update = 0 /\ sent.post = 0)
            /\ (pc = "sust" => building_id # None)
            /\ (pc = "crashed" => Len(out) = 1 /\ Decoded.raised /\ sent.post = 0)
            /\ (pc \in {"post", "post_wait"} =>
                  /\ Len(out) = 1
                  /\ building_id # None
                  /\ calls.update = 1
                  /\ line = del_sust_dec(Decoded.row))
            /\ (pc \in {"loop", "done"} =>
                  /\ ~Decoded.raised
                  /\ IF building_id = None
                     THEN Len(out) = 1 /\ sent.post = 0 /\ line = Decoded.row
                     ELSE Len(out) = 2 /\ sent.post >= 1
                          /\ line = del_sust_dec(Decoded.row)))
    /\ [][pc' # pc => <<pc, pc'>> \in StepOrder]_vars

C18_Witness ==
    /\ pc = "check"
    /\ building_id = None
    /\ Reported("no_match")
    /\ line # data
    /\ line = Decoded.row

\* the column is one of those main was told to decode as JSON
DesignatedJson(c) == \E i \in 1..Len(json_columns) : json_columns[i] = c

(***************************************************************************)
(* C19: the submit step changes nothing it is not meant to: the identifier *)
(* of the update request is the one the Resolver returned for the row, and *)
(* every data column that is neither designated as JSON nor an empty       *)
(* sust_dec is in the payload with its value exactly as in the row.        *)
(***************************************************************************)
C19_SubmitFrame ==
    \A q \in PostRequests :
        /\ building_id # None
        /\ q.id = building_id
        /\ q.id = (CASE Winner = "building_id" -> data["building_id"]
                     [] Winner = "toid" -> ref.toid
                     [] Winner = "uprn" -> ref.uprn
                     [] OTHER -> None)
        /\ \A c \in DOMAIN data \ IdCols :
              (~DesignatedJson(c) /\ ~(c = "sust_dec" /\ data[c] = ""))
                 => (c \in DOMAIN q.body /\ q.body[c] = data[c])

C19_Witness ==
    /\ json_columns = <<"extra">>
    /\ \E q \in PostRequests :
          /\ q.id \in CandIds
          /\ "sust_dec" \in DOMAIN q.body /\ q.body["sust_dec"] = "A"
          /\ "extra" \in DOMAIN q.body /\ q.body["extra"] # data["extra"]

(***************************************************************************)
(* C12: a failure inside a lookup or an update is retried without ceiling  *)
(* and never reaches the row loop: an attempt that raised leaves the row,  *)
(* the calls and the report as they are, only parse_json_columns can halt  *)
(* the run, and the next row is read only after the request has returned.  *)
(* If every request eventually stops failing, the run ends: at the end of  *)
(* the file, or halted by a JSON column that cannot be decoded.            *)
(***************************************************************************)
C12_RetriedUntilSuccess ==
    /\ <>(pc \in {"done", "crashed"})
    /\ [](pc = "crashed" => Decoded.raised)
    /\ [][ /\ (pc \in {"get_wait", "post_wait"} /\ pc' \in {"get", "post"} =>
                 /\ exc' # Unset
                 /\ rowIdx' = rowIdx /\ out' = out /\ calls' = calls
                 /\ ref' = ref /\ building_id' = building_id)
           /\ (pc' = "crashed" => pc = "parse")
           /\ (rowIdx' # rowIdx => exc = Unset /\ inflight = {}) ]_vars

C12_Witness ==
    /\ pc = "done"
    /\ rowIdx >= 2
    /\ sent.get >= 2
    /\ sent.post >= 2
    /\ Reported("DEBUG")

=============================================================================
